---- MODULE Spec2Model ----
(***************************************************************************)
(* StudioMemory: the action classes of studio_memory/actions.py applied to *)
(* the state tables of studio_memory/state.py.                             *)
(*                                                                         *)
(* Each table is a sequence of rows; a row's primary key id_ is its        *)
(* position (sqlite hands out 1, 2, 3, ... and no row is ever deleted).    *)
(* A foreign key that is None in Python is NULL (0) here.  One TLA+ action *)
(* is one call of an Action subclass's apply(session), including the call  *)
(* of User.current and of validate that apply makes.                       *)
(*                                                                         *)
(* An exception leaves the session as the code left it: the rows written   *)
(* before the raise stay written (nothing in apply rolls back), and        *)
(* User.current commits the user it creates.                               *)
(***************************************************************************)
EXTENDS Integers, Sequences, FiniteSets, TLC

VARIABLES
    columns,    \* table 'columns': the ColumnState rows, by id_
    swimlanes,  \* table 'swimlanes': the SwimlaneState rows, by id_
    entries,    \* table 'entries': the EntryState rows, by id_
    users,      \* table 'users': the User rows
    settings,   \* QSettings User.name / User.uid: who is checked in
    action,     \* the Action object applied last, and how apply ended
    before      \* the tables when that apply was called (history)

vars == <<columns, swimlanes, entries, users, settings, action, before>>

(***************************************************************************)
(* Bounds of the model.                                                    *)
(***************************************************************************)
MaxColumns == 3
MaxIndexColumns == 2
MaxFieldColumns == 2
MaxSwimlanes == 2
MaxEntries == 3
MaxBoardColumns == 1
MaxBoardSwimlanes == 1
MaxBoardEntries == 1

(***************************************************************************)
(* Values.                                                                 *)
(***************************************************************************)
NULL == 0
NoUid == "NULL"
NoSettings == [name |-> "NULL", uid |-> NoUid]

\* A nullable integer or DateTime column that holds None.
NoIndex == -99
NoDateTime == [iso |-> "NULL"]

\* ColumnState.column_types
column_types == {"queue", "step", "breakdown", "collect"}

\* ModifyColumn.valid_fields
column_valid_fields ==
    {"title", "done_rule", "column_type", "wip_limit", "status",
     "line_of_commitment"}

\* ModifySwimlane.valid_fields
swimlane_valid_fields ==
    {"title", "wip_limit", "status", "target_start", "target_end"}

\* The entry statuses that active_card_count leaves out.
inactive_card_statuses == {"discarded", "removed"}

\* str.strip() on the strings the model passes in.
\* str.strip leaving blanks in place (not the code).
StripNothing(s) == s

Strip(s) == IF s \in {"", " "} THEN "" ELSE s

\* The strings int() accepts, among those the model passes in, and its value.
IntStrings == {"0", "1", "3", "-1", " 1"}

IntOf(s) ==
    CASE s = "0" -> 0
      [] s = "1" -> 1
      [] s = " 1" -> 1
      [] s = "3" -> 3
      [] s = "-1" -> -1

\* The strings datetime.fromisoformat accepts, among those the model passes
\* in, and the datetime it returns.
IsoStrings == {"2020-01-02T03:04:05"}

FromIsoFormat(s) == [iso |-> s]

\* A reading of the word in the string, where the code takes bool() of the
\* string (not the code).
BoolOfWord(s) == s \notin {"", "False", "0"}

\* bool() of a str: true unless the string is empty.
BoolOf(s) == s # ""

\* Case folding of the names the model passes in.
Lower(s) ==
    CASE s = "Pete" -> "pete"
      [] s = "Pet_" -> "pet_"
      [] s = "Ann" -> "ann"
      [] OTHER -> s

\* The characters of a folded name.
Chars(s) ==
    CASE s = "pete" -> <<"p", "e", "t", "e">>
      [] s = "pet_" -> <<"p", "e", "t", "_">>
      [] s = "ann" -> <<"a", "n", "n">>
      [] OTHER -> <<s>>

\* SQL LIKE on characters: in the pattern _ stands for any one character
\* and % for any run of characters.
RECURSIVE Like(_, _)
Like(text, pattern) ==
    IF pattern = <<>> THEN text = <<>>
    ELSE IF Head(pattern) = "%"
    THEN \/ Like(text, Tail(pattern))
         \/ text # <<>> /\ Like(Tail(text), pattern)
    ELSE /\ text # <<>>
         /\ Head(pattern) = "_" \/ Head(pattern) = Head(text)
         /\ Like(Tail(text), Tail(pattern))

\* column.ilike(pattern): LIKE on the folded column value and pattern.
ILike(a, b) == Like(Chars(Lower(a)), Chars(Lower(b)))

Ids(table) == 1..Len(table)

Range(f) == {f[x] : x \in DOMAIN f}

(***************************************************************************)
(* The Action row of the command applied last, with how apply ended:       *)
(* "ok" or the class of the exception it raised.                           *)
(***************************************************************************)
ActionRecord(type, uid, column_id, swimlane_id, entry_id, args, result) ==
    [type_ |-> type, user_uid |-> uid, column_id |-> column_id,
     swimlane_id |-> swimlane_id, entry_id |-> entry_id, args |-> args,
     result |-> result]

NoArgs == [none |-> TRUE]

\* No command has been applied since the last check-in or store write.
NoAction == ActionRecord("none", NoUid, NULL, NULL, NULL, NoArgs, "ok")

(***************************************************************************)
(* The four state tables, and their contents at the moment the command     *)
(* applied last was called (history, for the claims that compare the store *)
(* before and after a command).                                            *)
(***************************************************************************)
Tables ==
    [columns |-> columns, swimlanes |-> swimlanes, entries |-> entries,
     users |-> users]

NoTables ==
    [columns |-> <<>>, swimlanes |-> <<>>, entries |-> <<>>, users |-> {}]

(***************************************************************************)
(* state.py                                                                *)
(***************************************************************************)
\* A ColumnState row with the column defaults.
NewColumnState(board_index) ==
    [board_index |-> board_index, title |-> "", done_rule |-> "",
     column_type |-> "queue", wip_limit |-> 0, line_of_commitment |-> FALSE,
     status |-> "active"]

\* active_card_count with the status filter inverted (not the code).
ColumnInactiveCardCount(es, column_id) ==
    Cardinality({e \in Ids(es) :
        /\ es[e].column_id = column_id
        /\ es[e].status \in inactive_card_statuses})

\* ColumnState.active_card_count
ColumnActiveCardCount(es, column_id) ==
    Cardinality({e \in Ids(es) :
        /\ es[e].column_id = column_id
        /\ es[e].status \notin inactive_card_statuses})

\* SwimlaneState.active_card_count
SwimlaneActiveCardCount(es, swimlane_id) ==
    Cardinality({e \in Ids(es) :
        /\ es[e].swimlane_id = swimlane_id
        /\ es[e].status \notin inactive_card_statuses})

\* ORDER BY board_index over a set of column ids (ties in id order).
RECURSIVE OrderByBoardIndex(_, _)
OrderByBoardIndex(cols, ids) ==
    IF ids = {} THEN <<>>
    ELSE LET first == CHOOSE c \in ids : \A d \in ids :
                          \/ cols[c].board_index < cols[d].board_index
                          \/ /\ cols[c].board_index = cols[d].board_index
                             /\ c <= d
         IN <<first>> \o OrderByBoardIndex(cols, ids \ {first})

\* ColumnState.active_columns: the ids of the active columns, by board_index.
ActiveColumns(cols) ==
    OrderByBoardIndex(cols, {c \in Ids(cols) : cols[c].status = "active"})

\* User.current: the checked-in user, created when nothing stored conflicts.
UserCurrent(us, st) ==
    IF st = NoSettings
    THEN [error |-> "EnvironmentError", users |-> us, uid |-> NoUid]
    ELSE IF \E u \in us : ILike(u.name, st.name) /\ u.uid = st.uid
    THEN [error |-> "ok", users |-> us, uid |-> st.uid]
    ELSE LET same_name == Cardinality({u \in us : ILike(u.name, st.name)})
             same_uid == Cardinality({u \in us : u.uid = st.uid})
         IN IF same_name > 0 \/ same_uid > 0
            THEN [error |-> "ValueError", users |-> us, uid |-> NoUid]
            ELSE [error |-> "ok",
                  users |-> us \cup {[name |-> st.name, uid |-> st.uid]},
                  uid |-> st.uid]

\* User.check_in
CheckIn(name, uid) ==
    /\ settings' = [name |-> name, uid |-> uid]
    /\ action' = NoAction
    /\ before' = NoTables
    /\ UNCHANGED <<columns, swimlanes, entries, users>>

(***************************************************************************)
(* actions.py: columns                                                     *)
(***************************************************************************)
\* AddColumn.validate
AddColumnValidate(cols, column_id) ==
    IF column_id \in Ids(cols) THEN "IndexError" ELSE "ok"

\* The loop with > where the code has >= (not the code).
AddColumnShiftAbove(cols, insertion_index) ==
    [c \in Ids(cols) |->
        IF cols[c].board_index > insertion_index
        THEN [cols[c] EXCEPT !.board_index = @ + 1]
        ELSE cols[c]]

\* The loop over the active columns only (not the code).
AddColumnShiftActive(cols, insertion_index) ==
    [c \in Ids(cols) |->
        IF cols[c].board_index >= insertion_index /\ cols[c].status = "active"
        THEN [cols[c] EXCEPT !.board_index = @ + 1]
        ELSE cols[c]]

\* AddColumn.apply, the loop: c.board_index += 1 where board_index >= index.
AddColumnShift(cols, insertion_index) ==
    [c \in Ids(cols) |->
        IF cols[c].board_index >= insertion_index
        THEN [cols[c] EXCEPT !.board_index = @ + 1]
        ELSE cols[c]]

\* AddColumn.apply
AddColumnApply(cols, us, st, insertion_index) ==
    LET cu == UserCurrent(us, st)
        v == AddColumnValidate(cols, NULL)
        args == [insertion_index |-> insertion_index]
    IN IF cu.error # "ok"
       THEN [columns |-> cols, users |-> cu.users,
             action |-> ActionRecord("add_column", NoUid, NULL, NULL, NULL,
                                     args, cu.error)]
       ELSE IF v # "ok"
       THEN [columns |-> cols, users |-> cu.users,
             action |-> ActionRecord("add_column", cu.uid, NULL, NULL, NULL,
                                     args, v)]
       ELSE [columns |-> Append(AddColumnShift(cols, insertion_index),
                                NewColumnState(insertion_index)),
             users |-> cu.users,
             action |-> ActionRecord("add_column", cu.uid, Len(cols) + 1,
                                     NULL, NULL, args, "ok")]

AddColumn(insertion_index) ==
    /\ LET r == AddColumnApply(columns, users, settings, insertion_index)
       IN /\ columns' = r.columns
          /\ users' = r.users
          /\ action' = r.action
          /\ before' = Tables
    /\ UNCHANGED <<swimlanes, entries, settings>>

\* RemoveColumn.validate without the count of the column's cards (not the
\* code).
RemoveColumnValidateNoCount(cols, es, column_id) ==
    IF column_id \notin Ids(cols) THEN "NoResultFound" ELSE "ok"

\* RemoveColumn.validate
RemoveColumnValidate(cols, es, column_id) ==
    IF column_id \notin Ids(cols) THEN "NoResultFound"
    ELSE IF ColumnActiveCardCount(es, column_id) > 0 THEN "KanbanError"
    ELSE "ok"

\* RemoveColumn.apply, the write with the index gap closed (not the code).
RemoveColumnMarkRenumber(cols, column_id) ==
    [c \in Ids(cols) |->
        IF c = column_id THEN [cols[c] EXCEPT !.status = "removed"]
        ELSE IF cols[c].board_index > cols[column_id].board_index
        THEN [cols[c] EXCEPT !.board_index = @ - 1]
        ELSE cols[c]]

\* RemoveColumn.apply, the write: column.status = 'removed'.
RemoveColumnMark(cols, column_id) ==
    [cols EXCEPT ![column_id].status = "removed"]

\* RemoveColumn.apply
RemoveColumnApply(cols, es, us, st, column_id) ==
    LET cu == UserCurrent(us, st)
        v == RemoveColumnValidate(cols, es, column_id)
    IN IF cu.error # "ok"
       THEN [columns |-> cols, users |-> cu.users,
             action |-> ActionRecord("remove_column", NoUid, column_id, NULL,
                                     NULL, NoArgs, cu.error)]
       ELSE IF v # "ok"
       THEN [columns |-> cols, users |-> cu.users,
             action |-> ActionRecord("remove_column", cu.uid, column_id, NULL,
                                     NULL, NoArgs, v)]
       ELSE [columns |-> RemoveColumnMark(cols, column_id),
             users |-> cu.users,
             action |-> ActionRecord("remove_column", cu.uid, column_id, NULL,
                                     NULL, NoArgs, "ok")]

RemoveColumn(column_id) ==
    /\ LET r == RemoveColumnApply(columns, entries, users, settings, column_id)
       IN /\ columns' = r.columns
          /\ users' = r.users
          /\ action' = r.action
          /\ before' = Tables
    /\ UNCHANGED <<swimlanes, entries, settings>>

\* MoveColumn.validate
MoveColumnValidate(cols, es, column_id) ==
    IF column_id \notin Ids(cols) THEN "NoResultFound"
    ELSE IF ColumnActiveCardCount(es, column_id) > 0 THEN "KanbanError"
    ELSE "ok"

\* MoveColumn.apply without its first loop (not the code).
MoveColumnCloseGapSkipped(cols, column_id) == cols

\* MoveColumn.apply, first loop: the other columns above the current index
\* go down by one.
MoveColumnCloseGap(cols, column_id) ==
    LET current_index == cols[column_id].board_index
    IN [c \in Ids(cols) |->
           IF cols[c].board_index > current_index /\ c # column_id
           THEN [cols[c] EXCEPT !.board_index = @ - 1]
           ELSE cols[c]]

\* The second loop with > where the code has >= (not the code).
MoveColumnOpenGapAbove(cols, column_id, new_index) ==
    [c \in Ids(cols) |->
        IF cols[c].board_index > new_index /\ c # column_id
        THEN [cols[c] EXCEPT !.board_index = @ + 1]
        ELSE cols[c]]

\* MoveColumn.apply, second loop: the other columns at or above the new index
\* go up by one.
MoveColumnOpenGap(cols, column_id, new_index) ==
    [c \in Ids(cols) |->
        IF cols[c].board_index >= new_index /\ c # column_id
        THEN [cols[c] EXCEPT !.board_index = @ + 1]
        ELSE cols[c]]

\* The three writes without the second loop (not the code).
MoveColumnRenumberNoGap(cols, column_id, new_index) ==
    [MoveColumnCloseGap(cols, column_id)
        EXCEPT ![column_id].board_index = new_index]

\* MoveColumn.apply, the three writes in order.
MoveColumnRenumber(cols, column_id, new_index) ==
    LET closed == MoveColumnCloseGap(cols, column_id)
        opened == MoveColumnOpenGap(closed, column_id, new_index)
    IN [opened EXCEPT ![column_id].board_index = new_index]

\* MoveColumn.apply
MoveColumnApply(cols, es, us, st, column_id, new_index) ==
    LET cu == UserCurrent(us, st)
        v == MoveColumnValidate(cols, es, column_id)
        args == [new_index |-> new_index]
    IN IF cu.error # "ok"
       THEN [columns |-> cols, users |-> cu.users,
             action |-> ActionRecord("move_column", NoUid, column_id, NULL,
                                     NULL, args, cu.error)]
       ELSE IF v # "ok"
       THEN [columns |-> cols, users |-> cu.users,
             action |-> ActionRecord("move_column", cu.uid, column_id, NULL,
                                     NULL, args, v)]
       ELSE [columns |-> MoveColumnRenumber(cols, column_id, new_index),
             users |-> cu.users,
             action |-> ActionRecord("move_column", cu.uid, column_id, NULL,
                                     NULL, args, "ok")]

\* MoveColumn(column, new_index): built from a ColumnState row, so the id exists.
MoveColumn(column_id, new_index) ==
    /\ column_id \in Ids(columns)
    /\ LET r == MoveColumnApply(columns, entries, users, settings, column_id,
                                new_index)
       IN /\ columns' = r.columns
          /\ users' = r.users
          /\ action' = r.action
          /\ before' = Tables
    /\ UNCHANGED <<swimlanes, entries, settings>>

\* ModifyColumn.validate
ModifyColumnValidate(cols, column_id, field_name, field_value) ==
    IF column_id \notin Ids(cols) THEN "NoResultFound"
    ELSE
    LET active_column_titles ==
            {cols[c].title : c \in {d \in Ids(cols) :
                cols[d].status = "active" /\ d # column_id}}
    IN IF field_name \notin column_valid_fields THEN "AttributeError"
       ELSE IF field_name = "column_type" /\ field_value \notin column_types
       THEN "ValueError"
       ELSE IF field_name = "wip_limit" /\ field_value \notin IntStrings
       THEN "ValueError"
       ELSE IF field_name = "wip_limit" /\ IntOf(field_value) < 0
       THEN "ValueError"
       ELSE IF field_name = "status" /\ field_value \notin {"active", "removed"}
       THEN "ValueError"
       ELSE IF field_name = "status" /\ field_value = "removed"
       THEN "ValueError"
       ELSE IF /\ field_name = "status"
               /\ field_value = "active"
               /\ cols[column_id].title \in active_column_titles
       THEN "ValueError"
       ELSE IF field_name = "title" /\ field_value \in active_column_titles
       THEN "ValueError"
       ELSE IF field_name = "title" /\ Strip(field_value) = ""
       THEN "ValueError"
       ELSE "ok"

\* The line_of_commitment branch without the loop over the other columns
\* (not the code).
SetLineOfCommitmentOnly(cols, column_id, field_value) ==
    [cols EXCEPT ![column_id].line_of_commitment = BoolOf(field_value)]

\* ModifyColumn.apply, the line_of_commitment branch.
SetLineOfCommitment(cols, column_id, field_value) ==
    [c \in Ids(cols) |->
        IF c = column_id
        THEN [cols[c] EXCEPT !.line_of_commitment = BoolOf(field_value)]
        ELSE [cols[c] EXCEPT !.line_of_commitment = FALSE]]

\* The wip_limit branch without its assignment (not the code).
SetWipLimitSkipped(cols, column_id, field_value) == cols

\* ModifyColumn.apply, the wip_limit branch.
SetWipLimit(cols, column_id, field_value) ==
    [cols EXCEPT ![column_id].wip_limit = IntOf(field_value)]

\* ModifyColumn.apply, the writes after validate.
ModifyColumnWrite(cols, column_id, field_name, field_value) ==
    CASE field_name = "wip_limit" ->
            SetWipLimit(cols, column_id, field_value)
      [] field_name = "line_of_commitment" ->
            SetLineOfCommitment(cols, column_id, field_value)
      [] field_name = "title" ->
            [cols EXCEPT ![column_id].title = field_value]
      [] field_name = "done_rule" ->
            [cols EXCEPT ![column_id].done_rule = field_value]
      [] field_name = "column_type" ->
            [cols EXCEPT ![column_id].column_type = field_value]
      [] field_name = "status" ->
            [cols EXCEPT ![column_id].status = field_value]

\* ModifyColumn.apply writing a status without a call of validate (not the
\* code).
ModifyColumnApplyUnvalidated(cols, column_id, field_name, field_value) ==
    LET args == [field_name |-> field_name, field_value |-> field_value]
    IN IF column_id \in Ids(cols) /\ field_name = "status"
       THEN [columns |-> [cols EXCEPT ![column_id].status = field_value],
             action |-> ActionRecord("modify_column", NoUid, column_id, NULL,
                                     NULL, args, "ok")]
       ELSE [columns |-> cols,
             action |-> ActionRecord("modify_column", NoUid, column_id, NULL,
                                     NULL, args, "AttributeError")]

\* ModifyColumn.apply: validate, then the writes; the user is not recorded.
ModifyColumnApply(cols, column_id, field_name, field_value) ==
    LET v == ModifyColumnValidate(cols, column_id, field_name, field_value)
        args == [field_name |-> field_name, field_value |-> field_value]
    IN IF v # "ok"
       THEN [columns |-> cols,
             action |-> ActionRecord("modify_column", NoUid, column_id, NULL,
                                     NULL, args, v)]
       ELSE [columns |-> ModifyColumnWrite(cols, column_id, field_name,
                                           field_value),
             action |-> ActionRecord("modify_column", NoUid, column_id, NULL,
                                     NULL, args, "ok")]

\* ModifyColumn(column, name, value): built from a ColumnState row.
ModifyColumn(column_id, field_name, field_value) ==
    /\ column_id \in Ids(columns)
    /\ LET r == ModifyColumnApply(columns, column_id, field_name, field_value)
       IN /\ columns' = r.columns
          /\ action' = r.action
          /\ before' = Tables
    /\ UNCHANGED <<swimlanes, entries, users, settings>>

(***************************************************************************)
(* actions.py: swimlanes                                                   *)
(***************************************************************************)
\* A SwimlaneState row as AddSwimlane.apply builds it.
NewSwimlaneState(title, wip_limit) ==
    [title |-> title, wip_limit |-> wip_limit, status |-> "active",
     target_start |-> NoDateTime, target_end |-> NoDateTime]

\* The titles of the active swimlanes other than swimlane_id.
ActiveSwimlaneTitles(lanes, swimlane_id) ==
    {lanes[s].title : s \in {t \in Ids(lanes) :
        lanes[t].status = "active" /\ t # swimlane_id}}

\* AddSwimlane.validate comparing with the titles of all swimlanes, removed
\* ones too (not the code).
AddSwimlaneValidateAllTitles(lanes, title, wip_limit) ==
    IF title \in {lanes[s].title : s \in Ids(lanes)} THEN "ValueError"
    ELSE IF wip_limit < 0 THEN "ValueError"
    ELSE "ok"

\* AddSwimlane.validate
AddSwimlaneValidate(lanes, title, wip_limit) ==
    IF title \in ActiveSwimlaneTitles(lanes, NULL) THEN "ValueError"
    ELSE IF wip_limit < 0 THEN "ValueError"
    ELSE "ok"

\* AddSwimlane.apply
AddSwimlaneApply(lanes, us, st, title, wip_limit) ==
    LET cu == UserCurrent(us, st)
        v == AddSwimlaneValidate(lanes, title, wip_limit)
        args == [title |-> title, wip_limit |-> wip_limit]
    IN IF cu.error # "ok"
       THEN [swimlanes |-> lanes, users |-> cu.users,
             action |-> ActionRecord("add_swimlane", NoUid, NULL, NULL, NULL,
                                     args, cu.error)]
       ELSE IF v # "ok"
       THEN [swimlanes |-> lanes, users |-> cu.users,
             action |-> ActionRecord("add_swimlane", cu.uid, NULL, NULL, NULL,
                                     args, v)]
       ELSE [swimlanes |-> Append(lanes, NewSwimlaneState(title, wip_limit)),
             users |-> cu.users,
             action |-> ActionRecord("add_swimlane", cu.uid, NULL,
                                     Len(lanes) + 1, NULL, args, "ok")]

AddSwimlane(title, wip_limit) ==
    /\ LET r == AddSwimlaneApply(swimlanes, users, settings, title, wip_limit)
       IN /\ swimlanes' = r.swimlanes
          /\ users' = r.users
          /\ action' = r.action
          /\ before' = Tables
    /\ UNCHANGED <<columns, entries, settings>>

\* RemoveSwimlane.validate
RemoveSwimlaneValidate(lanes, es, swimlane_id) ==
    IF swimlane_id \notin Ids(lanes) THEN "NoResultFound"
    ELSE IF SwimlaneActiveCardCount(es, swimlane_id) > 0 THEN "KanbanError"
    ELSE "ok"

\* RemoveSwimlane.apply, the write: swimlane.status = 'removed'.
RemoveSwimlaneMark(lanes, swimlane_id) ==
    [lanes EXCEPT ![swimlane_id].status = "removed"]

\* RemoveSwimlane.apply: validate comes before the user is recorded.
RemoveSwimlaneApply(lanes, es, us, st, swimlane_id) ==
    LET v == RemoveSwimlaneValidate(lanes, es, swimlane_id)
        cu == UserCurrent(us, st)
    IN IF v # "ok"
       THEN [swimlanes |-> lanes, users |-> us,
             action |-> ActionRecord("remove_swimlane", NoUid, NULL,
                                     swimlane_id, NULL, NoArgs, v)]
       ELSE IF cu.error # "ok"
       THEN [swimlanes |-> lanes, users |-> cu.users,
             action |-> ActionRecord("remove_swimlane", NoUid, NULL,
                                     swimlane_id, NULL, NoArgs, cu.error)]
       ELSE [swimlanes |-> RemoveSwimlaneMark(lanes, swimlane_id),
             users |-> cu.users,
             action |-> ActionRecord("remove_swimlane", cu.uid, NULL,
                                     swimlane_id, NULL, NoArgs, "ok")]

\* RemoveSwimlane(swimlane): built from a SwimlaneState row.
RemoveSwimlane(swimlane_id) ==
    /\ swimlane_id \in Ids(swimlanes)
    /\ LET r == RemoveSwimlaneApply(swimlanes, entries, users, settings,
                                    swimlane_id)
       IN /\ swimlanes' = r.swimlanes
          /\ users' = r.users
          /\ action' = r.action
          /\ before' = Tables
    /\ UNCHANGED <<columns, entries, settings>>

\* ModifySwimlane.validate, the 'status' branch: the first test compares the
\* field name with 'removed', the second looks the value 'active' up among
\* the titles.
ModifySwimlaneStatusValidate(lanes, swimlane_id, field_name, field_value) ==
    IF field_name = "removed" THEN "ValueError"
    ELSE IF field_value = "active"
    THEN IF field_value \in ActiveSwimlaneTitles(lanes, swimlane_id)
         THEN "ValueError"
         ELSE "ok"
    ELSE "ValueError"

\* ModifySwimlane.validate
ModifySwimlaneValidate(lanes, swimlane_id, field_name, field_value) ==
    IF swimlane_id \notin Ids(lanes) THEN "IndexError"
    ELSE IF field_name \notin swimlane_valid_fields THEN "AttributeError"
    ELSE IF field_name = "title"
    THEN IF field_value \in ActiveSwimlaneTitles(lanes, swimlane_id)
         THEN "ValueError"
         ELSE IF Strip(field_value) = "" THEN "ValueError"
         ELSE "ok"
    ELSE IF field_name = "wip_limit"
    THEN IF field_value \notin IntStrings THEN "ValueError"
         ELSE IF IntOf(field_value) < 0 THEN "ValueError"
         ELSE "ok"
    ELSE IF field_name = "status"
    THEN ModifySwimlaneStatusValidate(lanes, swimlane_id, field_name,
                                      field_value)
    ELSE IF Strip(field_value) # "" /\ field_value \notin IsoStrings
    THEN "ValueError"
    ELSE "ok"

\* ModifySwimlane.apply, the writes after validate.
ModifySwimlaneWrite(lanes, swimlane_id, field_name, field_value) ==
    CASE field_name = "wip_limit" ->
            [lanes EXCEPT ![swimlane_id].wip_limit = IntOf(field_value)]
      [] field_name = "target_start" ->
            [lanes EXCEPT ![swimlane_id].target_start =
                IF Strip(field_value) = "" THEN NoDateTime
                ELSE FromIsoFormat(field_value)]
      [] field_name = "target_end" ->
            [lanes EXCEPT ![swimlane_id].target_end =
                IF Strip(field_value) = "" THEN NoDateTime
                ELSE FromIsoFormat(field_value)]
      [] field_name = "title" ->
            [lanes EXCEPT ![swimlane_id].title = field_value]
      [] field_name = "status" ->
            [lanes EXCEPT ![swimlane_id].status = field_value]

\* ModifySwimlane.apply: validate comes before the user is recorded.
ModifySwimlaneApply(lanes, us, st, swimlane_id, field_name, field_value) ==
    LET v == ModifySwimlaneValidate(lanes, swimlane_id, field_name,
                                    field_value)
        cu == UserCurrent(us, st)
        args == [field_name |-> field_name, field_value |-> field_value]
    IN IF v # "ok"
       THEN [swimlanes |-> lanes, users |-> us,
             action |-> ActionRecord("modify_swimlane", NoUid, NULL,
                                     swimlane_id, NULL, args, v)]
       ELSE IF cu.error # "ok"
       THEN [swimlanes |-> lanes, users |-> cu.users,
             action |-> ActionRecord("modify_swimlane", NoUid, NULL,
                                     swimlane_id, NULL, args, cu.error)]
       ELSE [swimlanes |-> ModifySwimlaneWrite(lanes, swimlane_id, field_name,
                                               field_value),
             users |-> cu.users,
             action |-> ActionRecord("modify_swimlane", cu.uid, NULL,
                                     swimlane_id, NULL, args, "ok")]

\* ModifySwimlane(swimlane, name, value): built from a SwimlaneState row.
ModifySwimlane(swimlane_id, field_name, field_value) ==
    /\ swimlane_id \in Ids(swimlanes)
    /\ LET r == ModifySwimlaneApply(swimlanes, users, settings, swimlane_id,
                                    field_name, field_value)
       IN /\ swimlanes' = r.swimlanes
          /\ users' = r.users
          /\ action' = r.action
          /\ before' = Tables
    /\ UNCHANGED <<columns, entries, settings>>

(***************************************************************************)
(* actions.py: entries                                                     *)
(***************************************************************************)
\* An EntryState row whose branch is the row after the parent (not the code).
NewEntryStateBranchShifted(parent_id, insertion_index, text, uid) ==
    [swimlane_id |-> NULL, column_id |-> NULL, branch_id |-> parent_id + 1,
     outline_index |-> insertion_index, board_index |-> NoIndex,
     text |-> text, status |-> "note", created_by |-> uid,
     modified_by |-> uid]

\* An EntryState row as AddEntry.apply builds it.
NewEntryState(parent_id, insertion_index, text, uid) ==
    [swimlane_id |-> NULL, column_id |-> NULL, branch_id |-> parent_id,
     outline_index |-> insertion_index, board_index |-> NoIndex,
     text |-> text, status |-> "note", created_by |-> uid,
     modified_by |-> uid]

\* The entries under parent_id (NULL: the outline root) that are not removed.
Siblings(es, parent_id) ==
    {e \in Ids(es) : es[e].branch_id = parent_id /\ es[e].status # "removed"}

\* AddEntry.validate: the index is checked only under a parent entry.
AddEntryValidate(es, entry_id, parent_id, insertion_index) ==
    IF entry_id \in Ids(es) THEN "IndexError"
    ELSE IF parent_id = NULL THEN "ok"
    ELSE IF parent_id \notin Ids(es) THEN "IndexError"
    ELSE LET sibling_count == Cardinality(Siblings(es, parent_id))
         IN IF insertion_index > sibling_count \/ insertion_index < -1
            THEN "IndexError"
            ELSE "ok"

\* The loop over all entries of the parent, removed ones too (not the code).
AddEntryShiftRemoved(es, parent_id, insertion_index) ==
    [e \in Ids(es) |->
        IF /\ es[e].branch_id = parent_id
           /\ es[e].outline_index >= insertion_index
        THEN [es[e] EXCEPT !.outline_index = @ + 1]
        ELSE es[e]]

\* AddEntry.apply, the loop: entry.outline_index += 1 at or after the index.
AddEntryShift(es, parent_id, insertion_index) ==
    [e \in Ids(es) |->
        IF /\ e \in Siblings(es, parent_id)
           /\ es[e].outline_index >= insertion_index
        THEN [es[e] EXCEPT !.outline_index = @ + 1]
        ELSE es[e]]

\* AddEntry.apply: validate comes before the user is recorded.
AddEntryApply(es, us, st, parent_id, insertion_index, text) ==
    LET v == AddEntryValidate(es, NULL, parent_id, insertion_index)
        cu == UserCurrent(us, st)
        args == [parent_id |-> parent_id, insertion_index |-> insertion_index,
                 text |-> text]
    IN IF v # "ok"
       THEN [entries |-> es, users |-> us,
             action |-> ActionRecord("add_entry", NoUid, NULL, NULL, NULL,
                                     args, v)]
       ELSE IF cu.error # "ok"
       THEN [entries |-> es, users |-> cu.users,
             action |-> ActionRecord("add_entry", NoUid, NULL, NULL, NULL,
                                     args, cu.error)]
       ELSE [entries |-> Append(AddEntryShift(es, parent_id, insertion_index),
                                NewEntryState(parent_id, insertion_index, text,
                                              cu.uid)),
             users |-> cu.users,
             action |-> ActionRecord("add_entry", cu.uid, NULL, NULL,
                                     Len(es) + 1, args, "ok")]

\* AddEntry(parent, insertion_index, text): parent is an EntryState row or None.
AddEntry(parent_id, insertion_index, text) ==
    /\ parent_id \in Ids(entries) \cup {NULL}
    /\ LET r == AddEntryApply(entries, users, settings, parent_id,
                              insertion_index, text)
       IN /\ entries' = r.entries
          /\ users' = r.users
          /\ action' = r.action
          /\ before' = Tables
    /\ UNCHANGED <<columns, swimlanes, settings>>

\* RemoveEntry.validate
RemoveEntryValidate(es, entry_id) ==
    IF entry_id \notin Ids(es) THEN "NoResultFound" ELSE "ok"

\* entry.twigs: the rows whose branch is the entry.
Twigs(es, entry_id) == {e \in Ids(es) : es[e].branch_id = entry_id}

\* RemoveEntry._mark_entries_removed: the ids it reaches, the entry first.
RECURSIVE MarkedEntries(_, _)
MarkedEntries(es, entry_id) ==
    {entry_id} \cup
    UNION {MarkedEntries(es, twig) : twig \in Twigs(es, entry_id)}

\* _mark_entries_removed without the recursion into the twigs of the twigs
\* (not the code).
MarkEntriesRemovedOneLevel(es, entry_id) ==
    [e \in Ids(es) |->
        IF e = entry_id \/ e \in Twigs(es, entry_id)
        THEN [es[e] EXCEPT !.status = "removed"]
        ELSE es[e]]

\* RemoveEntry._mark_entries_removed
MarkEntriesRemoved(es, entry_id) ==
    [e \in Ids(es) |->
        IF e \in MarkedEntries(es, entry_id)
        THEN [es[e] EXCEPT !.status = "removed"]
        ELSE es[e]]

\* RemoveEntry.apply: validate comes before the user is recorded.
RemoveEntryApply(es, us, st, entry_id) ==
    LET v == RemoveEntryValidate(es, entry_id)
        cu == UserCurrent(us, st)
    IN IF v # "ok"
       THEN [entries |-> es, users |-> us,
             action |-> ActionRecord("remove_entry", NoUid, NULL, NULL,
                                     entry_id, NoArgs, v)]
       ELSE IF cu.error # "ok"
       THEN [entries |-> es, users |-> cu.users,
             action |-> ActionRecord("remove_entry", NoUid, NULL, NULL,
                                     entry_id, NoArgs, cu.error)]
       ELSE [entries |-> MarkEntriesRemoved(es, entry_id),
             users |-> cu.users,
             action |-> ActionRecord("remove_entry", cu.uid, NULL, NULL,
                                     entry_id, NoArgs, "ok")]

\* RemoveEntry(entry): built from an EntryState row.
RemoveEntry(entry_id) ==
    /\ entry_id \in Ids(entries)
    /\ LET r == RemoveEntryApply(entries, users, settings, entry_id)
       IN /\ entries' = r.entries
          /\ users' = r.users
          /\ action' = r.action
          /\ before' = Tables
    /\ UNCHANGED <<columns, swimlanes, settings>>

\* A write of the client layer to an entry's board cell and status: the
\* EntryState attributes column_id, swimlane_id and status, which no Action
\* of actions.py assigns after the entry is created.  A card is put on a
\* column and a swimlane that are on the board (active).
PlaceEntry(entry_id, column_id, swimlane_id, status) ==
    /\ entry_id \in Ids(entries)
    /\ \/ column_id = NULL
       \/ column_id \in Ids(columns) /\ columns[column_id].status = "active"
    /\ \/ swimlane_id = NULL
       \/ /\ swimlane_id \in Ids(swimlanes)
          /\ swimlanes[swimlane_id].status = "active"
    /\ entries[entry_id].status # "removed"
    /\ entries' = [entries EXCEPT ![entry_id].column_id = column_id,
                                  ![entry_id].swimlane_id = swimlane_id,
                                  ![entry_id].status = status]
    /\ action' = NoAction
    /\ before' = NoTables
    /\ UNCHANGED <<columns, swimlanes, users, settings>>

(***************************************************************************)
(* actions.py: validate called on its own, without apply.  The queries of  *)
(* validate read the tables and the fields of the command; the outcome is   *)
(* kept in the action record under the kind "validate_..." of the command.  *)
(***************************************************************************)
\* A call of validate: nothing is written, the outcome is what it raised.
Validate(type, column_id, swimlane_id, entry_id, args, outcome) ==
    /\ action' = ActionRecord(type, NoUid, column_id, swimlane_id, entry_id,
                              args, outcome)
    /\ before' = Tables
    /\ UNCHANGED <<columns, swimlanes, entries, users, settings>>

ValidateAddColumn(insertion_index) ==
    Validate("validate_add_column", NULL, NULL, NULL,
             [insertion_index |-> insertion_index],
             AddColumnValidate(columns, NULL))

ValidateRemoveColumn(column_id) ==
    Validate("validate_remove_column", column_id, NULL, NULL, NoArgs,
             RemoveColumnValidate(columns, entries, column_id))

ValidateMoveColumn(column_id, new_index) ==
    /\ column_id \in Ids(columns)
    /\ Validate("validate_move_column", column_id, NULL, NULL,
                [new_index |-> new_index],
                MoveColumnValidate(columns, entries, column_id))

ValidateModifyColumn(column_id, field_name, field_value) ==
    /\ column_id \in Ids(columns)
    /\ Validate("validate_modify_column", column_id, NULL, NULL,
                [field_name |-> field_name, field_value |-> field_value],
                ModifyColumnValidate(columns, column_id, field_name,
                                     field_value))

ValidateAddSwimlane(title, wip_limit) ==
    Validate("validate_add_swimlane", NULL, NULL, NULL,
             [title |-> title, wip_limit |-> wip_limit],
             AddSwimlaneValidate(swimlanes, title, wip_limit))

ValidateRemoveSwimlane(swimlane_id) ==
    /\ swimlane_id \in Ids(swimlanes)
    /\ Validate("validate_remove_swimlane", NULL, swimlane_id, NULL, NoArgs,
                RemoveSwimlaneValidate(swimlanes, entries, swimlane_id))

ValidateModifySwimlane(swimlane_id, field_name, field_value) ==
    /\ swimlane_id \in Ids(swimlanes)
    /\ Validate("validate_modify_swimlane", NULL, swimlane_id, NULL,
                [field_name |-> field_name, field_value |-> field_value],
                ModifySwimlaneValidate(swimlanes, swimlane_id, field_name,
                                       field_value))

ValidateAddEntry(parent_id, insertion_index, text) ==
    /\ parent_id \in Ids(entries) \cup {NULL}
    /\ Validate("validate_add_entry", NULL, NULL, NULL,
                [parent_id |-> parent_id,
                 insertion_index |-> insertion_index, text |-> text],
                AddEntryValidate(entries, NULL, parent_id, insertion_index))

ValidateRemoveEntry(entry_id) ==
    /\ entry_id \in Ids(entries)
    /\ Validate("validate_remove_entry", NULL, NULL, entry_id, NoArgs,
                RemoveEntryValidate(entries, entry_id))

(***************************************************************************)
(* actions.py: AddColumn.apply and AddEntry.apply commit by commit.  Each   *)
(* step below ends at a session.commit() of the code, so every state is one *)
(* that a second session on the same store can read.  While an apply is     *)
(* between two commits the result of its record is "user_committed" or      *)
(* "row_committed".                                                         *)
(***************************************************************************)
\* An apply has committed and not yet returned.
InApply == action.result \in {"user_committed", "row_committed"}

\* AddColumn.apply up to the commit in User.current.
AddColumnRecordUser(insertion_index) ==
    /\ ~InApply
    /\ LET cu == UserCurrent(users, settings)
           args == [insertion_index |-> insertion_index]
       IN /\ users' = cu.users
          /\ action' =
                IF cu.error # "ok"
                THEN ActionRecord("add_column", NoUid, NULL, NULL, NULL, args,
                                  cu.error)
                ELSE ActionRecord("add_column", cu.uid, NULL, NULL, NULL,
                                  args, "user_committed")
    /\ before' = Tables
    /\ UNCHANGED <<columns, swimlanes, entries, settings>>

\* AddColumn.apply from validate to the commit of the new column.
AddColumnInsert ==
    /\ action.type_ = "add_column" /\ action.result = "user_committed"
    /\ LET v == AddColumnValidate(columns, NULL)
           i == action.args.insertion_index
       IN IF v # "ok"
          THEN /\ action' = [action EXCEPT !.result = v]
               /\ UNCHANGED columns
          ELSE /\ columns' = Append(AddColumnShift(columns, i),
                                    NewColumnState(i))
               /\ action' = [action EXCEPT !.result = "row_committed"]
    /\ UNCHANGED <<swimlanes, entries, users, settings, before>>

\* AddColumn.apply, the assignment of column_id and the last commit.
AddColumnRecordId ==
    /\ action.type_ = "add_column" /\ action.result = "row_committed"
    /\ action' = [action EXCEPT !.column_id = Len(columns), !.result = "ok"]
    /\ UNCHANGED <<columns, swimlanes, entries, users, settings, before>>

\* AddEntry.apply up to the commit in User.current.
AddEntryRecordUser(parent_id, insertion_index, text) ==
    /\ ~InApply
    /\ parent_id \in Ids(entries) \cup {NULL}
    /\ LET v == AddEntryValidate(entries, NULL, parent_id, insertion_index)
           cu == UserCurrent(users, settings)
           args == [parent_id |-> parent_id,
                    insertion_index |-> insertion_index, text |-> text]
       IN IF v # "ok"
          THEN /\ action' = ActionRecord("add_entry", NoUid, NULL, NULL, NULL,
                                         args, v)
               /\ UNCHANGED users
          ELSE /\ users' = cu.users
               /\ action' =
                     IF cu.error # "ok"
                     THEN ActionRecord("add_entry", NoUid, NULL, NULL, NULL,
                                       args, cu.error)
                     ELSE ActionRecord("add_entry", cu.uid, NULL, NULL, NULL,
                                       args, "user_committed")
    /\ before' = Tables
    /\ UNCHANGED <<columns, swimlanes, entries, settings>>

\* AddEntry.apply from the loop to the commit of the new entry.
AddEntryInsert ==
    /\ action.type_ = "add_entry" /\ action.result = "user_committed"
    /\ entries' =
          Append(AddEntryShift(entries, action.args.parent_id,
                               action.args.insertion_index),
                 NewEntryState(action.args.parent_id,
                               action.args.insertion_index, action.args.text,
                               action.user_uid))
    /\ action' = [action EXCEPT !.result = "row_committed"]
    /\ UNCHANGED <<columns, swimlanes, users, settings, before>>

\* AddEntry.apply, the assignment of entry_id and the last commit.
AddEntryRecordId ==
    /\ action.type_ = "add_entry" /\ action.result = "row_committed"
    /\ action' = [action EXCEPT !.entry_id = Len(entries), !.result = "ok"]
    /\ UNCHANGED <<columns, swimlanes, entries, users, settings, before>>

Init ==
    /\ columns = <<>>
    /\ swimlanes = <<>>
    /\ entries = <<>>
    /\ users = {}
    /\ settings = NoSettings
    /\ action = NoAction
    /\ before = NoTables

(***************************************************************************)
(* The column commands with insertion and destination indices inside and   *)
(* outside the board (negative, and beyond its end).                       *)
(***************************************************************************)
ColumnIdentities == {<<"Pete", "u1">>}

ColumnIndices == -1..(MaxIndexColumns + 1)

NextIndices ==
    \/ \E id \in ColumnIdentities : CheckIn(id[1], id[2])
    \/ \E i \in ColumnIndices :
           Len(columns) < MaxIndexColumns /\ AddColumn(i)
    \/ \E c \in 1..MaxIndexColumns : RemoveColumn(c)
    \/ \E c \in 1..MaxIndexColumns, i \in ColumnIndices : MoveColumn(c, i)

SpecIndices == Init /\ [][NextIndices]_vars

(***************************************************************************)
(* The column commands with indices inside the board: AddColumn at 0..N,   *)
(* MoveColumn to 0..N-1, RemoveColumn of known and unknown ids, and the    *)
(* status modifications.                                                   *)
(***************************************************************************)
ColumnModifications == {<<"status", "active">>, <<"status", "removed">>}

NextColumns ==
    \/ \E id \in ColumnIdentities : CheckIn(id[1], id[2])
    \/ \E i \in 0..MaxColumns :
           Len(columns) < MaxColumns /\ i <= Len(columns) /\ AddColumn(i)
    \/ \E c \in 1..MaxColumns : RemoveColumn(c)
    \/ \E c \in 1..MaxColumns, i \in 0..(MaxColumns - 1) :
           i < Len(columns) /\ MoveColumn(c, i)
    \/ \E c \in 1..MaxColumns, m \in ColumnModifications :
           ModifyColumn(c, m[1], m[2])

SpecColumns == Init /\ [][NextColumns]_vars

(***************************************************************************)
(* The same on a smaller board, with the field modifications of           *)
(* ModifyColumn.                                                           *)
(***************************************************************************)
FieldModifications ==
    {<<"title", "A">>, <<"status", "active">>, <<"status", "removed">>,
     <<"line_of_commitment", "A">>, <<"line_of_commitment", "">>}

NextFields ==
    \/ \E id \in ColumnIdentities : CheckIn(id[1], id[2])
    \/ \E i \in 0..MaxFieldColumns :
           Len(columns) < MaxFieldColumns /\ i <= Len(columns) /\ AddColumn(i)
    \/ \E c \in 1..MaxFieldColumns : RemoveColumn(c)
    \/ \E c \in 1..MaxFieldColumns, i \in 0..(MaxFieldColumns - 1) :
           i < Len(columns) /\ MoveColumn(c, i)
    \/ \E c \in 1..MaxFieldColumns, m \in FieldModifications :
           ModifyColumn(c, m[1], m[2])

SpecFields == Init /\ [][NextFields]_vars

(***************************************************************************)
(* The column commands with the wip_limit modifications of ModifyColumn.   *)
(***************************************************************************)
MaxWipColumns == 2

WipValues == {"0", "1", "3", " 1", "-1", "x", ""}

NextWip ==
    \/ \E id \in ColumnIdentities : CheckIn(id[1], id[2])
    \/ \E i \in 0..MaxWipColumns :
           Len(columns) < MaxWipColumns /\ i <= Len(columns) /\ AddColumn(i)
    \/ \E c \in 1..MaxWipColumns : RemoveColumn(c)
    \/ \E c \in 1..MaxWipColumns, v \in WipValues :
           ModifyColumn(c, "wip_limit", v)

SpecWip == Init /\ [][NextWip]_vars

(***************************************************************************)
(* The column commands with the title and column_type modifications of     *)
(* ModifyColumn, and a field name it does not know.                        *)
(***************************************************************************)
MaxTitleColumns == 2

TitleModifications ==
    {<<"title", "A">>, <<"title", "B">>, <<"title", " ">>,
     <<"column_type", "step">>, <<"column_type", "x">>, <<"tootle", "A">>}

NextTitles ==
    \/ \E id \in ColumnIdentities : CheckIn(id[1], id[2])
    \/ Len(columns) < MaxTitleColumns /\ AddColumn(Len(columns))
    \/ \E c \in 1..MaxTitleColumns : RemoveColumn(c)
    \/ \E c \in 1..MaxTitleColumns, m \in TitleModifications :
           ModifyColumn(c, m[1], m[2])

SpecTitles == Init /\ [][NextTitles]_vars

(***************************************************************************)
(* The swimlane commands.                                                  *)
(***************************************************************************)
SwimlaneIdentities == {<<"Pete", "u1">>}

SwimlaneTitles == {"A", "active"}

SwimlaneModifications ==
    {<<"title", "A">>, <<"title", "active">>, <<"title", " ">>,
     <<"status", "active">>, <<"status", "removed">>, <<"status", "x">>,
     <<"wip_limit", "1">>, <<"wip_limit", "-1">>, <<"wip_limit", "x">>,
     <<"tootle", "A">>}

NextSwimlanes ==
    \/ \E id \in SwimlaneIdentities : CheckIn(id[1], id[2])
    \/ \E t \in SwimlaneTitles, w \in {0, -1} :
           Len(swimlanes) < MaxSwimlanes /\ AddSwimlane(t, w)
    \/ \E s \in 1..MaxSwimlanes : RemoveSwimlane(s)
    \/ \E s \in 1..MaxSwimlanes, m \in SwimlaneModifications :
           ModifySwimlane(s, m[1], m[2])

SpecSwimlanes == Init /\ [][NextSwimlanes]_vars

(***************************************************************************)
(* The entry commands on the outline.                                      *)
(***************************************************************************)
EntryIdentities == {<<"Pete", "u1">>}

EntryIndices == -2..MaxEntries

NextEntries ==
    \/ \E id \in EntryIdentities : CheckIn(id[1], id[2])
    \/ \E p \in 0..MaxEntries, i \in EntryIndices :
           Len(entries) < MaxEntries /\ AddEntry(p, i, "t")
    \/ \E e \in 1..MaxEntries : RemoveEntry(e)

SpecEntries == Init /\ [][NextEntries]_vars

(***************************************************************************)
(* The outline as a tree: AddEntry under the root or an entry, after its   *)
(* last sibling, and RemoveEntry of known and unknown ids.                 *)
(***************************************************************************)
MaxOutlineEntries == 4

NextOutline ==
    \/ \E id \in EntryIdentities : CheckIn(id[1], id[2])
    \/ \E p \in 0..MaxOutlineEntries, i \in 0..MaxOutlineEntries :
           /\ Len(entries) < MaxOutlineEntries
           /\ i = Cardinality(Siblings(entries, p))
           /\ AddEntry(p, i, "t")
    \/ \E e \in 1..MaxOutlineEntries : RemoveEntry(e)

SpecOutline == Init /\ [][NextOutline]_vars

(***************************************************************************)
(* The entry commands with insertion indices validate accepts under any    *)
(* parent: AddEntry at -1..siblings, and RemoveEntry.                      *)
(***************************************************************************)
MaxSiblingEntries == 3

NextSiblings ==
    \/ \E id \in EntryIdentities : CheckIn(id[1], id[2])
    \/ \E p \in 0..MaxSiblingEntries, i \in -1..MaxSiblingEntries :
           /\ Len(entries) < MaxSiblingEntries
           /\ i <= Cardinality(Siblings(entries, p))
           /\ AddEntry(p, i, "t")
    \/ \E e \in 1..MaxSiblingEntries : RemoveEntry(e)

SpecSiblings == Init /\ [][NextSiblings]_vars

(***************************************************************************)
(* Identities: check-ins under names and uids that agree, differ in case   *)
(* or differ by a character, each followed by commands that record the     *)
(* current user, before validate (AddColumn, RemoveColumn) and after it     *)
(* (AddEntry).                                                             *)
(***************************************************************************)
MaxUserRows == 1

UserNames == {"Pete", "pete", "Pet_"}

UserUids == {"u1", "u2"}

NextUsers ==
    \/ \E n \in UserNames, u \in UserUids : CheckIn(n, u)
    \/ Len(columns) < MaxUserRows /\ AddColumn(Len(columns))
    \/ \E c \in 1..MaxUserRows : RemoveColumn(c)
    \/ Len(entries) < MaxUserRows /\ AddEntry(NULL, Len(entries), "t")

SpecUsers == Init /\ [][NextUsers]_vars

(***************************************************************************)
(* The board: columns and swimlanes with cards on them, and a second       *)
(* identity that conflicts with the first.                                 *)
(***************************************************************************)
BoardIdentities == {<<"Pete", "u1">>, <<"pete", "u2">>}

CardStatuses == {"card", "discarded"}

NextBoard ==
    \/ \E id \in BoardIdentities : CheckIn(id[1], id[2])
    \/ Len(columns) < MaxBoardColumns /\ AddColumn(Len(columns))
    \/ Len(swimlanes) < MaxBoardSwimlanes /\ AddSwimlane("A", 0)
    \/ Len(entries) < MaxBoardEntries /\ AddEntry(NULL, Len(entries), "t")
    \/ \E e \in 1..MaxBoardEntries, c \in 0..MaxBoardColumns,
          s \in 0..MaxBoardSwimlanes, st \in CardStatuses :
           PlaceEntry(e, c, s, st)
    \/ \E c \in 1..(MaxBoardColumns + 1) : RemoveColumn(c)
    \/ \E s \in 1..MaxBoardSwimlanes : RemoveSwimlane(s)

SpecBoard == Init /\ [][NextBoard]_vars

(***************************************************************************)
(* The status of columns: columns with cards on them, RemoveColumn, and    *)
(* the status and title modifications of ModifyColumn.                     *)
(***************************************************************************)
MaxStatusColumns == 2

MaxStatusEntries == 1

StatusModifications ==
    {<<"status", "active">>, <<"status", "removed">>, <<"status", "x">>,
     <<"title", "A">>}

NextStatus ==
    \/ \E id \in ColumnIdentities : CheckIn(id[1], id[2])
    \/ Len(columns) < MaxStatusColumns /\ AddColumn(Len(columns))
    \/ Len(entries) < MaxStatusEntries /\ AddEntry(NULL, Len(entries), "t")
    \/ \E e \in 1..MaxStatusEntries, c \in 0..MaxStatusColumns,
          st \in CardStatuses :
           PlaceEntry(e, c, NULL, st)
    \/ \E c \in 1..MaxStatusColumns : RemoveColumn(c)
    \/ \E c \in 1..MaxStatusColumns, m \in StatusModifications :
           ModifyColumn(c, m[1], m[2])

SpecStatus == Init /\ [][NextStatus]_vars

(***************************************************************************)
(* Every kind of command on a small store, applied and only validated.     *)
(* The bound is on the rows of the three state tables together.            *)
(***************************************************************************)
MaxValidateRows == 2

\* The rows of the three state tables together.
ValidateRows == Len(columns) + Len(swimlanes) + Len(entries)

ValidateIndices == {0, 5}

ValidateModifications ==
    {<<"status", "removed">>, <<"title", "A">>, <<"tootle", "A">>}

NextValidate ==
    \/ \E id \in ColumnIdentities : CheckIn(id[1], id[2])
    \/ ValidateRows < MaxValidateRows /\ AddColumn(0)
    \/ \E c \in 1..(MaxValidateRows + 1) : RemoveColumn(c)
    \/ \E c \in 1..MaxValidateRows : MoveColumn(c, 0)
    \/ \E c \in 1..MaxValidateRows, m \in ValidateModifications :
           ModifyColumn(c, m[1], m[2])
    \/ \E w \in {0, -1} :
           ValidateRows < MaxValidateRows /\ AddSwimlane("A", w)
    \/ \E s \in 1..MaxValidateRows : RemoveSwimlane(s)
    \/ \E s \in 1..MaxValidateRows, m \in ValidateModifications :
           ModifySwimlane(s, m[1], m[2])
    \/ \E p \in 0..MaxValidateRows, i \in ValidateIndices :
           ValidateRows < MaxValidateRows /\ AddEntry(p, i, "t")
    \/ \E e \in 1..MaxValidateRows : RemoveEntry(e)
    \/ ValidateAddColumn(0)
    \/ \E c \in 1..(MaxValidateRows + 1) : ValidateRemoveColumn(c)
    \/ \E c \in 1..MaxValidateRows : ValidateMoveColumn(c, 0)
    \/ \E c \in 1..MaxValidateRows, m \in ValidateModifications :
           ValidateModifyColumn(c, m[1], m[2])
    \/ \E w \in {0, -1} : ValidateAddSwimlane("A", w)
    \/ \E s \in 1..MaxValidateRows : ValidateRemoveSwimlane(s)
    \/ \E s \in 1..MaxValidateRows, m \in ValidateModifications :
           ValidateModifySwimlane(s, m[1], m[2])
    \/ \E p \in 0..MaxValidateRows, i \in ValidateIndices :
           ValidateAddEntry(p, i, "t")
    \/ \E e \in 1..MaxValidateRows : ValidateRemoveEntry(e)

SpecValidate == Init /\ [][NextValidate]_vars

(***************************************************************************)
(* AddColumn and AddEntry commit by commit, under two identities.  A        *)
(* check-in happens between two commands, not inside an apply.              *)
(***************************************************************************)
MaxCommitRows == 2

CommitIdentities == {<<"Pete", "u1">>, <<"Ann", "u2">>}

NextCommits ==
    \/ \E id \in CommitIdentities : ~InApply /\ CheckIn(id[1], id[2])
    \/ \E i \in 0..MaxCommitRows :
           /\ Len(columns) < MaxCommitRows
           /\ i <= Len(columns)
           /\ AddColumnRecordUser(i)
    \/ AddColumnInsert
    \/ AddColumnRecordId
    \/ \E p \in 0..MaxCommitRows, i \in 0..MaxCommitRows :
           /\ Len(entries) < MaxCommitRows
           /\ i <= Cardinality(Siblings(entries, p))
           /\ AddEntryRecordUser(p, i, "t")
    \/ AddEntryInsert
    \/ AddEntryRecordId

SpecCommits == Init /\ [][NextCommits]_vars

(***************************************************************************)
(* The column commands with indices below, on and beyond the board, with   *)
(* RemoveColumn and the ModifyColumn calls that could touch the order: a    *)
(* re-activation and a write to board_index.                                *)
(***************************************************************************)
MaxDistinctColumns == 2

DistinctIndices == {-1, 0, 1, 4}

DistinctModifications == {<<"status", "active">>, <<"board_index", "0">>}

NextDistinct ==
    \/ \E id \in ColumnIdentities : CheckIn(id[1], id[2])
    \/ \E i \in DistinctIndices :
           Len(columns) < MaxDistinctColumns /\ AddColumn(i)
    \/ \E c \in 1..MaxDistinctColumns : RemoveColumn(c)
    \/ \E c \in 1..MaxDistinctColumns, i \in DistinctIndices : MoveColumn(c, i)
    \/ \E c \in 1..MaxDistinctColumns, m \in DistinctModifications :
           ModifyColumn(c, m[1], m[2])

SpecDistinct == Init /\ [][NextDistinct]_vars

(***************************************************************************)
(* The line of commitment: columns, some removed, and ModifyColumn of       *)
(* line_of_commitment with empty and non-empty strings.                     *)
(***************************************************************************)
MaxCommitmentColumns == 2

CommitmentValues == {"", "A", "False", "0"}

NextCommitment ==
    \/ \E id \in ColumnIdentities : CheckIn(id[1], id[2])
    \/ Len(columns) < MaxCommitmentColumns /\ AddColumn(Len(columns))
    \/ \E c \in 1..MaxCommitmentColumns : RemoveColumn(c)
    \/ \E c \in 1..MaxCommitmentColumns, v \in CommitmentValues :
           ModifyColumn(c, "line_of_commitment", v)

SpecCommitment == Init /\ [][NextCommitment]_vars

(***************************************************************************)
(* Properties.                                                             *)
(***************************************************************************)
BoardIndices(cols) == {cols[c].board_index : c \in Ids(cols)}

\* The board_index values are exactly 0..N-1, N the number of columns.
DenseBoard(cols) == BoardIndices(cols) = 0..(Len(cols) - 1)

ActiveIds(table) == {x \in Ids(table) : table[x].status = "active"}

\* The last command was an apply of the given kind that returned.
Applied(type) == action.type_ = type /\ action.result = "ok"

\* C1: in every reachable state the board_index values of all columns,
\* active and removed, are pairwise distinct and are exactly 0..N-1.
C1_BoardIndexDense ==
    /\ \A c, d \in Ids(columns) :
          c # d => columns[c].board_index # columns[d].board_index
    /\ DenseBoard(columns)

\* C2: a command whose apply raised left the columns, swimlanes, entries and
\* users tables exactly as they were before the call.
C2_FailedApplyLeavesTables ==
    (action.type_ # "none" /\ action.result # "ok") => Tables = before

\* C3: no two active columns have the same title.
C3_ActiveColumnTitlesUnique ==
    \A c, d \in ActiveIds(columns) :
        c # d => columns[c].title # columns[d].title

\* C4: no two active swimlanes have the same title.
C4_ActiveSwimlaneTitlesUnique ==
    \A s, t \in ActiveIds(swimlanes) :
        s # t => swimlanes[s].title # swimlanes[t].title

\* C5: under every parent, the outline root included, the outline_index
\* values of the entries that are not removed are exactly 0..K-1.
C5_OutlineIndexDense ==
    \A p \in {NULL} \cup Ids(entries) :
        LET kept == {e \in Ids(entries) :
                        /\ entries[e].branch_id = p
                        /\ entries[e].status # "removed"}
        IN /\ {entries[e].outline_index : e \in kept}
                = 0..(Cardinality(kept) - 1)
           /\ \A e, f \in kept :
                 e # f => entries[e].outline_index # entries[f].outline_index

\* The last command set line_of_commitment on a column to a true value.
CommitmentSetTrue ==
    /\ Applied("modify_column")
    /\ action.args.field_name = "line_of_commitment"
    /\ action.args.field_value # ""

\* C6: at most one column has line_of_commitment true; after ModifyColumn
\* sets it true on column B while it was true on column A, B is the only
\* column that has it.
C6_SingleLineOfCommitment ==
    /\ Cardinality({c \in Ids(columns) : columns[c].line_of_commitment}) <= 1
    /\ CommitmentSetTrue =>
          {c \in Ids(columns) : columns[c].line_of_commitment}
              = {action.column_id}

\* C6 witness: the flag was set true on B while another column A held it.
C6_Witness ==
    /\ CommitmentSetTrue
    /\ \E a \in Ids(before.columns) :
          /\ a # action.column_id
          /\ before.columns[a].line_of_commitment
    /\ columns[action.column_id].line_of_commitment

\* The last command was RemoveColumn on a column that had, when apply was
\* called, an entry whose status is neither discarded nor removed.
RemoveOccupiedColumn ==
    /\ action.type_ = "remove_column"
    /\ action.column_id \in Ids(before.columns)
    /\ \E e \in Ids(before.entries) :
          /\ before.entries[e].column_id = action.column_id
          /\ before.entries[e].status \notin {"discarded", "removed"}

\* The same for RemoveSwimlane.
RemoveOccupiedSwimlane ==
    /\ action.type_ = "remove_swimlane"
    /\ action.swimlane_id \in Ids(before.swimlanes)
    /\ \E e \in Ids(before.entries) :
          /\ before.entries[e].swimlane_id = action.swimlane_id
          /\ before.entries[e].status \notin {"discarded", "removed"}

C8_RemoveColumnFrame ==
    Applied("remove_column") =>
        /\ Len(columns) = Len(before.columns)
        /\ columns[action.column_id].status = "removed"
        /\ \A c \in Ids(columns) :
              /\ columns[c].board_index = before.columns[c].board_index
              /\ c # action.column_id => columns[c] = before.columns[c]
              /\ [columns[c] EXCEPT !.status = "x"]
                    = [before.columns[c] EXCEPT !.status = "x"]

\* C8 witness: an active column was removed from below another active one,
\* which keeps its index above the gap.
C8_Witness ==
    /\ Applied("remove_column")
    /\ before.columns[action.column_id].status = "active"
    /\ \E c \in ActiveIds(columns) :
          /\ columns[c].board_index > columns[action.column_id].board_index
          /\ columns[c].board_index = before.columns[c].board_index

\* The board_index values along ColumnState.active_columns.
ActiveBoardIndices ==
    [i \in 1..Len(ActiveColumns(columns)) |->
        columns[ActiveColumns(columns)[i]].board_index]

\* C9 as stated: the active columns sorted by board_index have the values
\* 0..N-1, without duplicates or gaps.
C9_ActiveColumnsDense ==
    ActiveBoardIndices = [i \in 1..Len(ActiveColumns(columns)) |-> i - 1]

\* C9 amended: active_columns lists every active column once, with strictly
\* increasing board_index values (no duplicates; gaps where columns were
\* removed).
C9_ActiveColumnsIncreasing ==
    /\ Len(ActiveColumns(columns)) = Cardinality(ActiveIds(columns))
    /\ Range(ActiveColumns(columns)) = ActiveIds(columns)
    /\ \A i \in 1..(Len(ActiveBoardIndices) - 1) :
          ActiveBoardIndices[i] < ActiveBoardIndices[i + 1]

\* C9 witness: a column is removed and the active ones start above 0.
C9_Witness ==
    /\ Applied("remove_column")
    /\ Len(ActiveBoardIndices) >= 1
    /\ ActiveBoardIndices[1] > 0
    /\ DenseBoard(columns)

\* The last command was a MoveColumn that returned, on a dense board, to an
\* index inside the board.
MovedOnDenseBoard ==
    /\ Applied("move_column")
    /\ DenseBoard(before.columns)
    /\ action.args.new_index \in 0..(Len(before.columns) - 1)

\* C10: such a move puts the column at new_index, leaves the board dense and
\* keeps the relative order of the other columns.
C10_MoveColumnDense ==
    MovedOnDenseBoard =>
        /\ columns[action.column_id].board_index = action.args.new_index
        /\ Len(columns) = Len(before.columns)
        /\ DenseBoard(columns)
        /\ \A c, d \in Ids(columns) \ {action.column_id} :
              (before.columns[c].board_index < before.columns[d].board_index)
                  <=> (columns[c].board_index < columns[d].board_index)

\* C10 witness: on a board of three columns the first column was moved
\* forward to the end.
C10_Witness ==
    /\ MovedOnDenseBoard
    /\ Len(columns) >= 3
    /\ before.columns[action.column_id].board_index = 0
    /\ action.args.new_index = Len(columns) - 1
    /\ columns[action.column_id].board_index = Len(columns) - 1

\* C10, the other direction: the last column was moved back to the front.
C10_WitnessBackward ==
    /\ MovedOnDenseBoard
    /\ Len(columns) >= 3
    /\ before.columns[action.column_id].board_index = Len(columns) - 1
    /\ action.args.new_index = 0
    /\ columns[action.column_id].board_index = 0

\* The last command was a MoveColumn that returned, to the index its column
\* already had.
MovedToOwnIndex ==
    /\ Applied("move_column")
    /\ action.args.new_index = before.columns[action.column_id].board_index

\* C11: MoveColumn(c, new_index = c's current board_index) leaves the
\* board_index of every column unchanged.
C11_MoveToOwnIndex ==
    MovedToOwnIndex =>
        /\ Len(columns) = Len(before.columns)
        /\ \A c \in Ids(columns) :
              columns[c].board_index = before.columns[c].board_index

\* C11 witness: a column was moved to its own index with another column
\* above it, which both loops of apply touch.
C11_Witness ==
    /\ MovedToOwnIndex
    /\ \E c \in Ids(columns) :
          before.columns[c].board_index
              > before.columns[action.column_id].board_index

\* The last command was a ModifyColumn of the wip_limit field.
ModifiedWipLimit ==
    action.type_ = "modify_column" /\ action.args.field_name = "wip_limit"

\* The values that denote an integer n >= 0, with n.
NonNegativeWip == {<<"0", 0>>, <<"1", 1>>, <<"3", 3>>, <<" 1", 1>>}

\* C12: ModifyColumn(c, 'wip_limit', v) with v denoting an integer n >= 0
\* succeeds and leaves c.wip_limit = n; with any other v (negative or not a
\* number) it raises and leaves c.wip_limit as it was; so the wip_limit of
\* every column is >= 0 in every reachable state.
C12_WipLimitRoundTrip ==
    /\ \A c \in Ids(columns) : columns[c].wip_limit >= 0
    /\ ModifiedWipLimit =>
          LET c == action.column_id
              v == action.args.field_value
          IN IF \E p \in NonNegativeWip : p[1] = v
             THEN /\ action.result = "ok"
                  /\ \E p \in NonNegativeWip :
                        p[1] = v /\ columns[c].wip_limit = p[2]
             ELSE /\ action.result # "ok"
                  /\ columns[c].wip_limit = before.columns[c].wip_limit

\* C12 witness: a column whose limit was 3 had a negative limit refused.
C12_Witness ==
    /\ ModifiedWipLimit
    /\ action.args.field_value = "-1"
    /\ action.result = "ValueError"
    /\ columns[action.column_id].wip_limit = 3

\* The four refusals of ModifyColumn, as conditions on the command applied
\* last and the columns it was applied to.
TitleTaken ==
    /\ action.args.field_name = "title"
    /\ \E d \in ActiveIds(before.columns) :
          /\ d # action.column_id
          /\ before.columns[d].title = action.args.field_value

TitleBlank ==
    /\ action.args.field_name = "title"
    /\ action.args.field_value \in {"", " "}

FieldUnknown ==
    action.args.field_name \notin
        {"title", "done_rule", "column_type", "wip_limit", "status",
         "line_of_commitment"}

ColumnTypeUnknown ==
    /\ action.args.field_name = "column_type"
    /\ action.args.field_value \notin {"queue", "step", "breakdown", "collect"}

\* C13: ModifyColumn.apply raises and leaves every column as it was when the
\* new title is the title of another active column, when the trimmed title
\* is empty, when the field name is not a column field, or when the
\* column_type is not one of the four types.
C13_ModifyColumnRefusals ==
    /\ action.type_ = "modify_column"
    /\ TitleTaken \/ TitleBlank \/ FieldUnknown \/ ColumnTypeUnknown
    => action.result # "ok" /\ columns = before.columns

\* C13 witness: a title of one blank was refused on a board where no other
\* active column has that title.
C13_Witness ==
    /\ action.type_ = "modify_column"
    /\ action.args.field_name = "title"
    /\ action.args.field_value = " "
    /\ ~TitleTaken
    /\ action.result = "ValueError"
    /\ Len(columns) = 2

\* C13 witness: a title held by another active column was refused.
C13_WitnessTaken ==
    /\ action.type_ = "modify_column"
    /\ TitleTaken
    /\ action.args.field_value = "B"
    /\ action.result = "ValueError"

\* The AddSwimlane applied last had the title of a swimlane that was active,
\* or a negative limit.
AddSwimlaneRefusable ==
    \/ \E s \in ActiveIds(before.swimlanes) :
          before.swimlanes[s].title = action.args.title
    \/ action.args.wip_limit < 0

\* No swimlane row was created or changed by the command applied last.
SwimlanesUnchanged == swimlanes = before.swimlanes

\* The command applied last created exactly one swimlane, active, with the
\* title and limit given, and left the others as they were.
OneSwimlaneCreated ==
    /\ Len(swimlanes) = Len(before.swimlanes) + 1
    /\ SubSeq(swimlanes, 1, Len(before.swimlanes)) = before.swimlanes
    /\ swimlanes[Len(swimlanes)].title = action.args.title
    /\ swimlanes[Len(swimlanes)].wip_limit = action.args.wip_limit
    /\ swimlanes[Len(swimlanes)].status = "active"

\* C14 as stated: AddSwimlane.apply with the title of an active swimlane or
\* a negative wip_limit raises and creates nothing; with a fresh title and
\* wip_limit >= 0 it creates exactly one new active swimlane.
C14_AddSwimlaneOutcome ==
    action.type_ = "add_swimlane" =>
        IF AddSwimlaneRefusable
        THEN action.result # "ok" /\ SwimlanesUnchanged
        ELSE action.result = "ok" /\ OneSwimlaneCreated

\* C14 amended: the same, where the creation needs an identity that
\* User.current resolves; without one apply raises and creates nothing.
C14_AddSwimlaneOutcomeIdentified ==
    action.type_ = "add_swimlane" =>
        IF AddSwimlaneRefusable \/ UserCurrent(before.users, settings).error # "ok"
        THEN action.result # "ok" /\ SwimlanesUnchanged
        ELSE action.result = "ok" /\ OneSwimlaneCreated

\* C14 witness: a swimlane was created with the title of a removed one,
\* after an AddSwimlane of a live title would have been refused.
C14_Witness ==
    /\ Applied("add_swimlane")
    /\ OneSwimlaneCreated
    /\ \E s \in Ids(before.swimlanes) :
          /\ before.swimlanes[s].status = "removed"
          /\ before.swimlanes[s].title = action.args.title

\* C14 witness: the second AddSwimlane of a title was refused.
C14_WitnessRefused ==
    /\ action.type_ = "add_swimlane"
    /\ action.result = "ValueError"
    /\ action.args.wip_limit = 0
    /\ Len(swimlanes) = 1

\* The entry reached from entry x by following branch_id upwards n times
\* (NULL above the root).
RECURSIVE BranchAbove(_, _, _)
BranchAbove(es, x, n) ==
    IF n = 0 \/ x = NULL THEN x ELSE BranchAbove(es, es[x].branch_id, n - 1)

\* Entry x is entry e or one of its descendants at any depth.
InSubtree(es, x, e) == \E n \in 0..Len(es) : BranchAbove(es, x, n) = e

\* C15: after RemoveEntry(e).apply returned, e and all its descendants at
\* any depth have status 'removed', every other entry has the status it had,
\* and no entry's outline_index or board_index has changed.
C15_RemoveEntryCascade ==
    Applied("remove_entry") =>
        /\ Len(entries) = Len(before.entries)
        /\ \A x \in Ids(entries) :
              /\ IF InSubtree(before.entries, x, action.entry_id)
                 THEN entries[x].status = "removed"
                 ELSE entries[x].status = before.entries[x].status
              /\ entries[x].outline_index = before.entries[x].outline_index
              /\ entries[x].board_index = before.entries[x].board_index
              /\ entries[x].branch_id = before.entries[x].branch_id

\* C15 witness: an entry with a child and a grandchild that were not removed
\* was removed, and a sibling of it was not.
C15_Witness ==
    /\ Applied("remove_entry")
    /\ \E child, grandchild, sibling \in Ids(entries) :
          /\ before.entries[child].branch_id = action.entry_id
          /\ before.entries[grandchild].branch_id = child
          /\ before.entries[child].status = "note"
          /\ before.entries[grandchild].status = "note"
          /\ entries[grandchild].status = "removed"
          /\ sibling # action.entry_id
          /\ before.entries[sibling].branch_id
                = before.entries[action.entry_id].branch_id
          /\ entries[sibling].status = "note"

\* C16: whenever the apply of a command returns, the command's user_uid is
\* the uid of the checked-in identity; no command is applied with nobody
\* checked in or with its acting identity left unrecorded.
C16_UserRecorded ==
    action.type_ # "none" /\ action.result = "ok" =>
        /\ settings # NoSettings
        /\ action.user_uid = settings.uid

\* Column c, as it was, with the board_index given.
ColumnAt(c, board_index) ==
    [before.columns[c] EXCEPT !.board_index = board_index]

\* C17: AddColumn(i).apply that returns has raised by exactly 1 the
\* board_index of every column that was there, active or removed, with
\* board_index >= i, changed nothing else of the columns that were there, and
\* added one column with board_index i and the default fields; so adding at
\* the end of a board numbered 0..N-1 in order of creation leaves it so.
C17_AddColumnEffect ==
    Applied("add_column") =>
        LET i == action.args.insertion_index
            N == Len(before.columns)
        IN /\ Len(columns) = N + 1
           /\ \A c \in 1..N :
                 columns[c] =
                     IF before.columns[c].board_index >= i
                     THEN ColumnAt(c, before.columns[c].board_index + 1)
                     ELSE before.columns[c]
           /\ columns[N + 1] =
                 [board_index |-> i, title |-> "", done_rule |-> "",
                  column_type |-> "queue", wip_limit |-> 0,
                  line_of_commitment |-> FALSE, status |-> "active"]
           /\ (i = N /\ \A c \in 1..N : before.columns[c].board_index = c - 1)
                 => \A c \in 1..(N + 1) : columns[c].board_index = c - 1

\* C17 witness: a column was added between two others, the one above it
\* removed and shifted, the one below it left where it was.
C17_Witness ==
    /\ Applied("add_column")
    /\ \E c, d \in Ids(before.columns) :
          /\ before.columns[c].board_index < action.args.insertion_index
          /\ before.columns[d].board_index >= action.args.insertion_index
          /\ before.columns[d].status = "removed"
          /\ columns[d].board_index = before.columns[d].board_index + 1

\* C17 witness: three columns added at 0, 1 and 2 stand at 0, 1 and 2.
C17_WitnessInOrder ==
    /\ Applied("add_column")
    /\ action.args.insertion_index = 2
    /\ \A c \in 1..3 : columns[c].board_index = c - 1 /\ columns[c].status = "active"

\* The entries that had the parent of the AddEntry applied last, were not
\* removed, and stood at or after its insertion index.
EntriesToShift ==
    {x \in Ids(before.entries) :
        /\ before.entries[x].branch_id = action.args.parent_id
        /\ before.entries[x].status # "removed"
        /\ before.entries[x].outline_index >= action.args.insertion_index}

\* C18: AddEntry(parent, i, text).apply that returns has raised by exactly 1
\* the outline_index of every non-removed entry of that parent with
\* outline_index >= i, left every other entry as it was, and added one entry
\* with that parent, outline_index i, status 'note', no column and no
\* swimlane, created and modified by the checked-in uid.
C18_AddEntryEffect ==
    Applied("add_entry") =>
        LET N == Len(before.entries)
        IN /\ Len(entries) = N + 1
           /\ \A x \in 1..N :
                 entries[x] =
                     IF x \in EntriesToShift
                     THEN [before.entries[x] EXCEPT !.outline_index = @ + 1]
                     ELSE before.entries[x]
           /\ entries[N + 1].branch_id = action.args.parent_id
           /\ entries[N + 1].outline_index = action.args.insertion_index
           /\ entries[N + 1].text = action.args.text
           /\ entries[N + 1].status = "note"
           /\ entries[N + 1].column_id = NULL
           /\ entries[N + 1].swimlane_id = NULL
           /\ settings # NoSettings
           /\ entries[N + 1].created_by = settings.uid
           /\ entries[N + 1].modified_by = settings.uid

\* C18 witness: an entry was added in front of two siblings, one of them
\* removed and left where it was, the other shifted.
C18_Witness ==
    /\ Applied("add_entry")
    /\ \E x, y \in Ids(before.entries) :
          /\ x \in EntriesToShift
          /\ entries[x].outline_index = before.entries[x].outline_index + 1
          /\ before.entries[y].branch_id = action.args.parent_id
          /\ before.entries[y].status = "removed"
          /\ before.entries[y].outline_index >= action.args.insertion_index
          /\ entries[y] = before.entries[y]

\* The AddEntry applied last had an insertion index outside
\* -1..siblingCount, the number of non-removed entries of its parent.
InsertionIndexOutside ==
    LET siblingCount ==
            Cardinality({x \in Ids(before.entries) :
                /\ before.entries[x].branch_id = action.args.parent_id
                /\ before.entries[x].status # "removed"})
    IN \/ action.args.insertion_index < -1
       \/ action.args.insertion_index > siblingCount

\* C19: for every parent, an entry or the outline root, AddEntry.apply with
\* an insertion_index outside -1..siblingCount raises, adds no entry and
\* changes no outline_index.
C19_InsertionIndexChecked ==
    action.type_ = "add_entry" /\ InsertionIndexOutside =>
        action.result # "ok" /\ entries = before.entries

\* The same under a parent entry only, where validate checks the index.
C19_InsertionIndexCheckedUnderEntry ==
    /\ action.type_ = "add_entry"
    /\ action.args.parent_id # NULL
    /\ InsertionIndexOutside
    => action.result = "IndexError" /\ entries = before.entries

\* Two names are the same up to case.
SameName(a, b) == Lower(a) = Lower(b)

\* The checked-in pair matched no stored user on both fields when the last
\* command was applied, while a stored user had its name or its uid.
IdentityConflict ==
    /\ settings # NoSettings
    /\ ~ \E u \in before.users :
            SameName(u.name, settings.name) /\ u.uid = settings.uid
    /\ \E u \in before.users :
            SameName(u.name, settings.name) \/ u.uid = settings.uid

\* The kinds of command whose apply records the current user.
RecordingCommands ==
    {"add_column", "remove_column", "move_column", "add_swimlane",
     "remove_swimlane", "modify_swimlane", "add_entry", "remove_entry"}

\* No two stored users share a uid or, up to case, a name.
UsersDistinct ==
    \A u, v \in users :
        u # v => u.uid # v.uid /\ ~SameName(u.name, v.name)

\* A user record is created only for the checked-in pair, when neither its
\* name nor its uid was stored, and none is altered.
UserCreatedOnlyWhenNew ==
    action.type_ # "none" /\ users # before.users =>
        /\ settings # NoSettings
        /\ users = before.users \cup {settings}
        /\ \A u \in before.users :
              ~SameName(u.name, settings.name) /\ u.uid # settings.uid

\* C20: when the checked-in (name, uid) matches no stored user on both
\* fields but a stored user has the same name up to case or the same uid,
\* every command that records the current user fails and no user record is
\* created or altered; a user record is created only when neither the name
\* nor the uid is stored; so no two stored users share a uid or a name.
C20_IdentityConflictFails ==
    /\ action.type_ \in RecordingCommands /\ IdentityConflict
          => action.result # "ok" /\ users = before.users
    /\ UserCreatedOnlyWhenNew
    /\ UsersDistinct

\* The parts of C20 that do not depend on how names are compared.
C20_UsersDistinct == UserCreatedOnlyWhenNew /\ UsersDistinct

\* The last command was a ModifyColumn of the status field that the claim
\* says is refused: a value that is no status, 'removed', or 'active' for a
\* removed column whose title another active column holds.
StatusModificationRefusable ==
    /\ action.type_ = "modify_column"
    /\ action.args.field_name = "status"
    /\ \/ action.args.field_value \notin {"active", "removed"}
       \/ action.args.field_value = "removed"
       \/ /\ action.args.field_value = "active"
          /\ before.columns[action.column_id].status = "removed"
          /\ \E d \in ActiveIds(before.columns) :
                /\ d # action.column_id
                /\ before.columns[d].title
                      = before.columns[action.column_id].title

\* A step that takes a column from 'active' to 'removed' is a RemoveColumn of
\* that column that returned, with no card on the column whose status is
\* neither discarded nor removed.
RemovedOnlyByRemoveColumn ==
    \A c \in Ids(columns) :
        columns[c].status = "active" /\ columns'[c].status = "removed" =>
            /\ action'.type_ = "remove_column"
            /\ action'.result = "ok"
            /\ action'.column_id = c
            /\ ~ \E e \in Ids(entries) :
                    /\ entries[e].column_id = c
                    /\ entries[e].status \notin {"discarded", "removed"}

\* C21: ModifyColumn of 'status' is refused for every value other than
\* 'active' and 'removed', for 'removed', and for 'active' on a removed
\* column whose title another active column holds; so over any sequence of
\* commands a column goes from 'active' to 'removed' only through a
\* RemoveColumn whose zero-active-cards check passed.
C21_StatusOnlyByRemoveColumn ==
    /\ [](StatusModificationRefusable
             => action.result = "ValueError" /\ columns = before.columns)
    /\ [][RemovedOnlyByRemoveColumn]_vars

\* C21 witness: a ModifyColumn to 'removed' was refused on an active column
\* that carries a discarded card and that RemoveColumn would remove.
C21_Witness ==
    /\ StatusModificationRefusable
    /\ action.args.field_value = "removed"
    /\ columns[action.column_id].status = "active"
    /\ \E e \in Ids(entries) :
          /\ entries[e].column_id = action.column_id
          /\ entries[e].status = "discarded"

\* C21 witness: a removed column was not re-activated, its title being held
\* by an active column.
C21_WitnessReactivation ==
    /\ StatusModificationRefusable
    /\ action.args.field_value = "active"
    /\ columns[action.column_id].status = "removed"
    /\ columns[action.column_id].title = "A"

\* The last command was a ModifySwimlane of the status field to 'removed'.
SwimlaneSetRemoved ==
    /\ action.type_ = "modify_swimlane"
    /\ action.swimlane_id \in Ids(before.swimlanes)
    /\ action.args.field_name = "status"
    /\ action.args.field_value = "removed"

\* The last command was a ModifySwimlane of the status field to 'active' on a
\* removed swimlane whose title another active swimlane held.
SwimlaneReactivationCollides ==
    /\ action.type_ = "modify_swimlane"
    /\ action.swimlane_id \in Ids(before.swimlanes)
    /\ action.args.field_name = "status"
    /\ action.args.field_value = "active"
    /\ before.swimlanes[action.swimlane_id].status = "removed"
    /\ \E t \in ActiveIds(before.swimlanes) :
          /\ t # action.swimlane_id
          /\ before.swimlanes[t].title
                = before.swimlanes[action.swimlane_id].title

\* C22: ModifySwimlane(s, 'status', 'removed') is always refused and leaves s
\* as it was; ModifySwimlane(s, 'status', 'active') on a removed s is refused
\* and leaves s removed whenever another active swimlane has the title of s.
C22_SwimlaneStatusRefusals ==
    SwimlaneSetRemoved \/ SwimlaneReactivationCollides =>
        /\ action.result # "ok"
        /\ swimlanes[action.swimlane_id] = before.swimlanes[action.swimlane_id]

\* The first half of C22 alone: 'removed' is always refused.
C22_SetRemovedRefused ==
    SwimlaneSetRemoved =>
        /\ action.result = "ValueError"
        /\ swimlanes = before.swimlanes

\* Every branch_id is NULL or the id of an entry.
BranchesExist ==
    \A x \in Ids(entries) : entries[x].branch_id \in Ids(entries) \cup {NULL}

\* C23: in every state reachable by AddEntry and RemoveEntry the branch_id
\* relation is a forest: following branch_id from any entry reaches NULL
\* within as many steps as there are entries, and never comes back to the
\* entry.
C23_BranchForest ==
    /\ BranchesExist
    /\ \A x \in Ids(entries) :
          /\ \E n \in 1..Len(entries) : BranchAbove(entries, x, n) = NULL
          /\ \A n \in 1..Len(entries) : BranchAbove(entries, x, n) # x

\* C23 witness: a chain of three entries under the root, next to a second
\* root entry, some of them removed.
C23_Witness ==
    /\ Applied("add_entry")
    /\ \E x, y, z, r \in Ids(entries) :
          /\ entries[x].branch_id = NULL
          /\ entries[y].branch_id = x
          /\ entries[z].branch_id = y
          /\ r # x /\ entries[r].branch_id = NULL
          /\ entries[y].status = "removed"

\* The kinds of the action record after a call of validate alone, and after
\* a call of apply.
ValidateKinds ==
    {"validate_add_column", "validate_remove_column", "validate_move_column",
     "validate_modify_column", "validate_add_swimlane",
     "validate_remove_swimlane", "validate_modify_swimlane",
     "validate_add_entry", "validate_remove_entry"}

ApplyKinds ==
    {"add_column", "remove_column", "move_column", "modify_column",
     "add_swimlane", "remove_swimlane", "modify_swimlane", "add_entry",
     "remove_entry"}

\* What the validate of the command applied last returns on the tables b.
ValidateOutcome(b) ==
    CASE action.type_ = "add_column" -> AddColumnValidate(b.columns, NULL)
      [] action.type_ = "remove_column" ->
            RemoveColumnValidate(b.columns, b.entries, action.column_id)
      [] action.type_ = "move_column" ->
            MoveColumnValidate(b.columns, b.entries, action.column_id)
      [] action.type_ = "modify_column" ->
            ModifyColumnValidate(b.columns, action.column_id,
                                 action.args.field_name,
                                 action.args.field_value)
      [] action.type_ = "add_swimlane" ->
            AddSwimlaneValidate(b.swimlanes, action.args.title,
                                action.args.wip_limit)
      [] action.type_ = "remove_swimlane" ->
            RemoveSwimlaneValidate(b.swimlanes, b.entries, action.swimlane_id)
      [] action.type_ = "modify_swimlane" ->
            ModifySwimlaneValidate(b.swimlanes, action.swimlane_id,
                                   action.args.field_name,
                                   action.args.field_value)
      [] action.type_ = "add_entry" ->
            AddEntryValidate(b.entries, NULL, action.args.parent_id,
                             action.args.insertion_index)
      [] action.type_ = "remove_entry" ->
            RemoveEntryValidate(b.entries, action.entry_id)

\* A call of validate leaves the four tables as they were and stamps nothing
\* on the command.
ValidateReadOnly ==
    action.type_ \in ValidateKinds =>
        Tables = before /\ action.user_uid = NoUid

\* An apply that changed a column, a swimlane or an entry belongs to a
\* command whose validate returns ok on the tables apply was called on.
MutatedOnlyIfValid ==
    /\ action.type_ \in ApplyKinds
    /\ \/ columns # before.columns
       \/ swimlanes # before.swimlanes
       \/ entries # before.entries
    => ValidateOutcome(before) = "ok"

\* A second call of validate for the same command, right after the first,
\* ends as the first did.
ValidateTwiceSame ==
    /\ action.type_ \in ValidateKinds
    /\ action'.type_ = action.type_
    /\ action'.column_id = action.column_id
    /\ action'.swimlane_id = action.swimlane_id
    /\ action'.entry_id = action.entry_id
    /\ action'.args = action.args
    => action'.result = action.result

C24_WitnessApply ==
    /\ action.type_ = "modify_column"
    /\ action.args.field_value = "removed"
    /\ ValidateOutcome(before) = "ValueError"
    /\ columns = before.columns
    /\ Len(columns) = 2

\* The store as a second session reads it is the store the command applied
\* last was called on, with no id on the command.
CompletePreState ==
    /\ Tables = before
    /\ action.column_id = NULL
    /\ action.entry_id = NULL

\* The store as a second session reads it is the store after the whole
\* apply of the command applied last, with the new id on the command.
CompletePostState ==
    \/ /\ action.type_ = "add_column"
       /\ LET post == AddColumnApply(before.columns, before.users, settings,
                                     action.args.insertion_index)
          IN /\ columns = post.columns
             /\ users = post.users
             /\ action.column_id = post.action.column_id
    \/ /\ action.type_ = "add_entry"
       /\ LET post == AddEntryApply(before.entries, before.users, settings,
                                    action.args.parent_id,
                                    action.args.insertion_index,
                                    action.args.text)
          IN /\ entries = post.entries
             /\ users = post.users
             /\ action.entry_id = post.action.entry_id

\* C25: each apply is one transaction with one commit: every committed state
\* a second client can read while a command is applied is the complete
\* pre-state or the complete post-state of the command, never a state with a
\* lazily created user alone or with a new row whose id is not yet on the
\* command.
C25_ApplyOneCommit ==
    action.type_ \in {"add_column", "add_entry"} =>
        CompletePreState \/ CompletePostState

\* What holds of the commits: the state after the last one is the complete
\* post-state.
C25_ReturnedIsPostState ==
    action.type_ \in {"add_column", "add_entry"} /\ ~InApply =>
        CompletePostState

\* C26: in every state reachable by AddColumn and MoveColumn with arbitrary
\* integer indices, negative or beyond the end, and by RemoveColumn and
\* ModifyColumn, the board_index values of all columns are pairwise distinct.
C26_BoardIndexDistinct ==
    \A c, d \in Ids(columns) :
        c # d => columns[c].board_index # columns[d].board_index

\* C26 witness: a column was moved onto the index of another on a board
\* whose indices are not 0..N-1, one of the columns removed.
C26_Witness ==
    /\ Applied("move_column")
    /\ ~DenseBoard(columns)
    /\ \E d \in Ids(before.columns) :
          /\ d # action.column_id
          /\ before.columns[d].board_index = action.args.new_index
          /\ columns[d].status = "removed"

\* C27: in every state reachable by AddEntry and RemoveEntry, every entry
\* whose parent (branch) has status 'removed' has status 'removed' itself.
C27_RemovedSubtreeClosed ==
    \A x \in Ids(entries) :
        /\ entries[x].branch_id # NULL
        /\ entries[entries[x].branch_id].status = "removed"
        => entries[x].status = "removed"

\* What RemoveEntry alone keeps: right after a RemoveEntry that returned,
\* every entry under the removed entry is removed, at any depth.
C27_RemovedAtRemoval ==
    Applied("remove_entry") =>
        \A x \in Ids(entries) :
            InSubtree(entries, x, action.entry_id)
                => entries[x].status = "removed"

\* The last command was a ModifyColumn of line_of_commitment that returned.
CommitmentModified ==
    /\ Applied("modify_column")
    /\ action.args.field_name = "line_of_commitment"

\* C28: after a ModifyColumn(c, 'line_of_commitment', v) that returned, every
\* column other than c has line_of_commitment false whatever v is, and the
\* flag of c is true exactly when v is a non-empty string: 'False' and '0'
\* set it, and '' clears it together with the flag of the column that had it.
C28_LineOfCommitmentValue ==
    CommitmentModified =>
        /\ \A d \in Ids(columns) \ {action.column_id} :
              columns[d].line_of_commitment = FALSE
        /\ columns[action.column_id].line_of_commitment
              = (action.args.field_value # "")
        /\ action.args.field_value \in {"False", "0"}
              => columns[action.column_id].line_of_commitment = TRUE

\* C28 witness: '' on one column cleared the flag that another, removed,
\* column had been given with 'False'.
C28_Witness ==
    /\ CommitmentModified
    /\ action.args.field_value = ""
    /\ \E d \in Ids(columns) \ {action.column_id} :
          /\ before.columns[d].line_of_commitment = TRUE
          /\ columns[d].status = "removed"
          /\ columns[d].line_of_commitment = FALSE

\* C28 witness: 'False' set the flag.
C28_WitnessFalseWord ==
    /\ CommitmentModified
    /\ action.args.field_value = "False"
    /\ columns[action.column_id].line_of_commitment = TRUE
    /\ Len(columns) = 2

====
